---- MODULE Spec2Model ----
\* HexaURL validation (hexaurl-validate-js): the configuration model, the
\* length accounting, the ordered validation engine and the fast pre-check,
\* as a state machine of a caller that builds one Config and then calls
\* validate / isEncodingSafe on an input string and a byte budget, or hands the
\* Config to the Zod adapter.  The state is the Config instance, the last call
\* with its outcome, and the lastIndex of the module's shared RegExp objects.
EXTENDS Integers, Sequences, FiniteSets, TLC

VARIABLES config, call, lastIndex

vars == <<config, call, lastIndex>>

\* ---------------------------------------------------------------- bounds
\* longest input, in characters (Unicode scalars)
MaxLen == 2
\* largest minLength / maxLength a caller passes
MaxCfgLen == 2
\* largest byte budget a caller passes
MaxByteSize == 3
\* longest identifier validated under the default lengths and byte budget
MaxIdLen == 4

\* ---------------------------------------------------- values of the source
\* "T | null" and "T | undefined" values are tagged tuples
Null == <<"null">>
Undefined == <<"undefined">>
Value(v) == <<"value", v>>
IsNull(x) == x[1] = "null"
IsNullish(x) == x[1] \in {"null", "undefined"}
Val(x) == x[2]
\* a ?? b
Coalesce(a, b) == IF IsNullish(a) THEN b ELSE a

\* A JS number that need not be an integer: the exact fraction num/den, kept
\* in lowest terms for the denominators that occur (1 and 3).  n*4/3 is
\* rounded by IEEE-754 to a double that orders against every integer exactly
\* as the fraction does.
Num(i) == [num |-> i, den |-> 1]
Div(a, d) == IF a % d = 0 THEN [num |-> a \div d, den |-> 1] ELSE [num |-> a, den |-> d]
Less(a, b) == a.num * b.den < b.num * a.den
MathMin(a, b) == IF Less(b, a) THEN b ELSE a

\* ------------------------------------------------------------ strings
\* code points of the characters callers use: 'a', '-', '_' and U+1F98A (a fox,
\* outside the Basic Multilingual Plane)
LetterA == 97
Hyphen == 45
Underscore == 95
Fox == 129418
Alphabet == {LetterA, Hyphen, Underscore, Fox}

\* mutant: a string as a sequence of Unicode scalars
utf16char_scalar(cp) == <<cp>>

\* a JS string holds UTF-16 code units: a scalar above U+FFFF is a surrogate pair
utf16char(cp) ==
  IF cp > 65535
    THEN <<55296 + ((cp - 65536) \div 1024), 56320 + ((cp - 65536) % 1024)>>
    ELSE <<cp>>

RECURSIVE utf16(_)
utf16(s) == IF s = <<>> THEN <<>> ELSE utf16char(Head(s)) \o utf16(Tail(s))

\* String.prototype.length, startsWith, endsWith, includes on code units
length(u) == Len(u)
startsWith(u, p) == Len(u) >= Len(p) /\ SubSeq(u, 1, Len(p)) = p
endsWith(u, p) == Len(u) >= Len(p) /\ SubSeq(u, Len(u) - Len(p) + 1, Len(u)) = p
includes(u, p) == \E i \in 1..(Len(u) - Len(p) + 1) : SubSeq(u, i, i + Len(p) - 1) = p

\* mutant: the composition patterns written with * instead of +
TestPlus_star(class, u) == \A i \in 1..Len(u) : u[i] \in class

\* RegExp.test for /^[class]+$/ and /^[class]*$/ (no u flag: per code unit)
TestPlus(class, u) == Len(u) >= 1 /\ \A i \in 1..Len(u) : u[i] \in class
TestStar(class, u) == \A i \in 1..Len(u) : u[i] \in class

\* ------------------------------------------------------------ config.ts
Alphanumeric == "Alphanumeric"
AlphanumericHyphen == "AlphanumericHyphen"
AlphanumericUnderscore == "AlphanumericUnderscore"
AlphanumericHyphenUnderscore == "AlphanumericHyphenUnderscore"
IdentifierComposition ==
  {Alphanumeric, AlphanumericHyphen, AlphanumericUnderscore, AlphanumericHyphenUnderscore}

Flags == {"allowLeadingTrailingHyphens", "allowLeadingTrailingUnderscores",
          "allowConsecutiveHyphens", "allowConsecutiveUnderscores",
          "allowAdjacentHyphenUnderscore"}
DelimiterRules == [Flags -> BOOLEAN]

\* createDelimiterRules(o): the overrides o spread over all-false defaults
createDelimiterRules(o) == [f \in Flags |-> IF f \in DOMAIN o THEN o[f] ELSE FALSE]
createAllowedDelimiterRules == [f \in Flags |-> TRUE]

DEFAULT_MIN_LENGTH == 3

NoConfig == [minLength |-> Undefined, maxLength |-> Undefined,
             identifier |-> "none", delimiter |-> Undefined]

\* mutant: the comparison of Config.validate() turned round
Config_validate_reversed(minLength, maxLength) ==
  /\ ~IsNull(minLength)
  /\ ~IsNull(maxLength)
  /\ Val(minLength) < Val(maxLength)

\* Config.validate(): TRUE when the constructor throws
Config_validate(minLength, maxLength) ==
  /\ ~IsNull(minLength)
  /\ ~IsNull(maxLength)
  /\ Val(minLength) > Val(maxLength)

ConfigError == "Minimum length cannot be greater than maximum length"

\* new Config(minLength, maxLength, identifier, delimiter): the instance, or
\* NoConfig when the constructor throws
Config(minLength, maxLength, identifier, delimiter) ==
  IF Config_validate(minLength, maxLength)
    THEN NoConfig
    ELSE [minLength |-> minLength, maxLength |-> maxLength,
          identifier |-> identifier, delimiter |-> delimiter]

\* Config.create(options)
Config_create(options) ==
  Config(Coalesce(options.minLength, Value(DEFAULT_MIN_LENGTH)),
         Coalesce(options.maxLength, Null),
         Val(Coalesce(options.identifier, Value(AlphanumericHyphen))),
         Coalesce(options.delimiter, Null))

\* Config.minimal()
Config_minimal ==
  Config(Null, Null, AlphanumericHyphenUnderscore, Value(createAllowedDelimiterRules))

createConfig(o) == Config_create(o)

\* ------------------------------------------------------------ validate.ts
Digits == 48..57
Upper == 65..90
Lower == 97..122
\* the four RegExp objects /^[class]+$/ that every call shares; name is the
\* object's identity
PATTERNS ==
  [ALPHANUMERIC |->
     [name |-> "ALPHANUMERIC", class |-> Digits \cup Upper \cup Lower],
   ALPHANUMERIC_HYPHEN |->
     [name |-> "ALPHANUMERIC_HYPHEN", class |-> Digits \cup Upper \cup Lower \cup {Hyphen}],
   ALPHANUMERIC_UNDERSCORE |->
     [name |-> "ALPHANUMERIC_UNDERSCORE",
      class |-> Digits \cup Upper \cup Lower \cup {Underscore}],
   ALPHANUMERIC_HYPHEN_UNDERSCORE |->
     [name |-> "ALPHANUMERIC_HYPHEN_UNDERSCORE",
      class |-> Digits \cup Upper \cup Lower \cup {Hyphen, Underscore}]]

\* mutant: the patterns compiled with the global flag
RegExpFlags_global == {"g"}

\* the flags of the PATTERNS literals: none
RegExpFlags == {}

\* RegExp.prototype.test on a PATTERNS object.  A global or sticky RegExp
\* starts matching at its lastIndex, where ^ holds only at index 0; any other
\* RegExp matches from the start.
test(re, u) ==
  IF RegExpFlags \cap {"g", "y"} # {}
    THEN lastIndex[re.name] = 0 /\ TestPlus(re.class, u)
    ELSE TestPlus(re.class, u)
\* ... and the lastIndex fields after that call: a global or sticky RegExp
\* stores the end of its match, or 0 after a failure
test_lastIndex(re, u) ==
  IF RegExpFlags \cap {"g", "y"} # {}
    THEN [lastIndex EXCEPT ![re.name] = IF test(re, u) THEN Len(u) ELSE 0]
    ELSE lastIndex

\* mutant: the 4:3 ratio inverted
calcStrLen_inverted(n) == Div(n * 3, 4)

calcStrLen(n) == Div(n * 4, 3)

\* mutant: the hyphen and underscore patterns exchanged
getPatternForIdentifier_swapped(identifier) ==
  CASE identifier = Alphanumeric -> PATTERNS.ALPHANUMERIC
    [] identifier = AlphanumericHyphen -> PATTERNS.ALPHANUMERIC_UNDERSCORE
    [] identifier = AlphanumericUnderscore -> PATTERNS.ALPHANUMERIC_HYPHEN
    [] identifier = AlphanumericHyphenUnderscore -> PATTERNS.ALPHANUMERIC_HYPHEN_UNDERSCORE

getPatternForIdentifier(identifier) ==
  CASE identifier = Alphanumeric -> PATTERNS.ALPHANUMERIC
    [] identifier = AlphanumericHyphen -> PATTERNS.ALPHANUMERIC_HYPHEN
    [] identifier = AlphanumericUnderscore -> PATTERNS.ALPHANUMERIC_UNDERSCORE
    [] identifier = AlphanumericHyphenUnderscore -> PATTERNS.ALPHANUMERIC_HYPHEN_UNDERSCORE

\* enum HexaUrlErrorCode: the numeric value of each member
HexaUrlErrorCode ==
  [StringTooLong |-> 0, StringTooShort |-> 1, BytesTooLong |-> 2, BytesTooShort |-> 3,
   InvalidCharacter |-> 4, InvalidConfig |-> 5, InvalidLength |-> 6,
   LeadingTrailingHyphen |-> 7, LeadingTrailingUnderscore |-> 8,
   ConsecutiveHyphens |-> 9, ConsecutiveUnderscores |-> 10,
   AdjacentHyphenUnderscore |-> 11]

\* the HexaUrlError that throwError(code, message) throws; args are the
\* numbers interpolated into the message template
throwError(code, message, args) == [code |-> code, message |-> message, args |-> args]
\* normal (void) return
Ok == [code |-> "Ok", message |-> "", args |-> <<>>]
\* the TypeError of calling .test on undefined, which getPatternForIdentifier
\* returns for a value outside the enum
TypeError ==
  [code |-> "TypeError", message |-> "Cannot read properties of undefined", args |-> <<>>]

\* mutant: the consecutive checks run before the leading/trailing checks
validateDelimiters_consecutiveFirst(u, rules) ==
  IF ~rules.allowConsecutiveHyphens /\ includes(u, <<Hyphen, Hyphen>>)
    THEN throwError("ConsecutiveHyphens",
                    "This type of HexaURL cannot include consecutive hyphens", <<>>)
  ELSE IF ~rules.allowConsecutiveUnderscores /\ includes(u, <<Underscore, Underscore>>)
    THEN throwError("ConsecutiveUnderscores",
                    "This type of HexaURL cannot include consecutive underscores", <<>>)
  ELSE IF ~rules.allowLeadingTrailingHyphens
     /\ (startsWith(u, <<Hyphen>>) \/ endsWith(u, <<Hyphen>>))
    THEN throwError("LeadingTrailingHyphen",
                    "Hyphens cannot start or end this type of HexaURL", <<>>)
  ELSE IF ~rules.allowLeadingTrailingUnderscores
     /\ (startsWith(u, <<Underscore>>) \/ endsWith(u, <<Underscore>>))
    THEN throwError("LeadingTrailingUnderscore",
                    "Underscores cannot start or end this type of HexaURL", <<>>)
  ELSE IF ~rules.allowAdjacentHyphenUnderscore
     /\ (includes(u, <<Hyphen, Underscore>>) \/ includes(u, <<Underscore, Hyphen>>))
    THEN throwError("AdjacentHyphenUnderscore",
                    "This type of HexaURL cannot include adjacent hyphens and underscores", <<>>)
  ELSE Ok

\* mutant: the adjacent check misses the "_-" order
validateDelimiters_oneWayAdjacent(u, rules) ==
  IF ~rules.allowLeadingTrailingHyphens
     /\ (startsWith(u, <<Hyphen>>) \/ endsWith(u, <<Hyphen>>))
    THEN throwError("LeadingTrailingHyphen",
                    "Hyphens cannot start or end this type of HexaURL", <<>>)
  ELSE IF ~rules.allowLeadingTrailingUnderscores
     /\ (startsWith(u, <<Underscore>>) \/ endsWith(u, <<Underscore>>))
    THEN throwError("LeadingTrailingUnderscore",
                    "Underscores cannot start or end this type of HexaURL", <<>>)
  ELSE IF ~rules.allowConsecutiveHyphens /\ includes(u, <<Hyphen, Hyphen>>)
    THEN throwError("ConsecutiveHyphens",
                    "This type of HexaURL cannot include consecutive hyphens", <<>>)
  ELSE IF ~rules.allowConsecutiveUnderscores /\ includes(u, <<Underscore, Underscore>>)
    THEN throwError("ConsecutiveUnderscores",
                    "This type of HexaURL cannot include consecutive underscores", <<>>)
  ELSE IF ~rules.allowAdjacentHyphenUnderscore /\ includes(u, <<Hyphen, Underscore>>)
    THEN throwError("AdjacentHyphenUnderscore",
                    "This type of HexaURL cannot include adjacent hyphens and underscores", <<>>)
  ELSE Ok

\* mutant: the consecutive-hyphen check runs when the flag allows the pattern
validateDelimiters_flagInverted(u, rules) ==
  IF ~rules.allowLeadingTrailingHyphens
     /\ (startsWith(u, <<Hyphen>>) \/ endsWith(u, <<Hyphen>>))
    THEN throwError("LeadingTrailingHyphen",
                    "Hyphens cannot start or end this type of HexaURL", <<>>)
  ELSE IF ~rules.allowLeadingTrailingUnderscores
     /\ (startsWith(u, <<Underscore>>) \/ endsWith(u, <<Underscore>>))
    THEN throwError("LeadingTrailingUnderscore",
                    "Underscores cannot start or end this type of HexaURL", <<>>)
  ELSE IF rules.allowConsecutiveHyphens /\ includes(u, <<Hyphen, Hyphen>>)
    THEN throwError("ConsecutiveHyphens",
                    "This type of HexaURL cannot include consecutive hyphens", <<>>)
  ELSE IF ~rules.allowConsecutiveUnderscores /\ includes(u, <<Underscore, Underscore>>)
    THEN throwError("ConsecutiveUnderscores",
                    "This type of HexaURL cannot include consecutive underscores", <<>>)
  ELSE IF ~rules.allowAdjacentHyphenUnderscore
     /\ (includes(u, <<Hyphen, Underscore>>) \/ includes(u, <<Underscore, Hyphen>>))
    THEN throwError("AdjacentHyphenUnderscore",
                    "This type of HexaURL cannot include adjacent hyphens and underscores", <<>>)
  ELSE Ok

validateDelimiters(u, rules) ==
  IF ~rules.allowLeadingTrailingHyphens
     /\ (startsWith(u, <<Hyphen>>) \/ endsWith(u, <<Hyphen>>))
    THEN throwError("LeadingTrailingHyphen",
                    "Hyphens cannot start or end this type of HexaURL", <<>>)
  ELSE IF ~rules.allowLeadingTrailingUnderscores
     /\ (startsWith(u, <<Underscore>>) \/ endsWith(u, <<Underscore>>))
    THEN throwError("LeadingTrailingUnderscore",
                    "Underscores cannot start or end this type of HexaURL", <<>>)
  ELSE IF ~rules.allowConsecutiveHyphens /\ includes(u, <<Hyphen, Hyphen>>)
    THEN throwError("ConsecutiveHyphens",
                    "This type of HexaURL cannot include consecutive hyphens", <<>>)
  ELSE IF ~rules.allowConsecutiveUnderscores /\ includes(u, <<Underscore, Underscore>>)
    THEN throwError("ConsecutiveUnderscores",
                    "This type of HexaURL cannot include consecutive underscores", <<>>)
  ELSE IF ~rules.allowAdjacentHyphenUnderscore
     /\ (includes(u, <<Hyphen, Underscore>>) \/ includes(u, <<Underscore, Hyphen>>))
    THEN throwError("AdjacentHyphenUnderscore",
                    "This type of HexaURL cannot include adjacent hyphens and underscores", <<>>)
  ELSE Ok

\* mutant: validate without the InvalidConfig step and with delimiter checks
\* skipped for an absent delimiter (the library's earlier validateWithConfig)
validateWithConfig(u, cfg, byteSize) ==
  LET len == length(u)
      effectiveMax ==
        IF ~IsNull(cfg.maxLength)
          THEN MathMin(Num(Val(cfg.maxLength)), calcStrLen(byteSize))
          ELSE calcStrLen(byteSize)
  IN
  IF ~IsNull(cfg.minLength) /\ len < Val(cfg.minLength)
    THEN throwError("StringTooShort",
                    "String is too short: minimum length is ${} characters",
                    <<Num(Val(cfg.minLength))>>)
  ELSE IF Less(effectiveMax, Num(len))
    THEN throwError("StringTooLong",
                    "String is too long: maximum length is ${} characters",
                    <<effectiveMax>>)
  ELSE IF cfg.identifier \notin IdentifierComposition THEN TypeError
  ELSE IF ~test(getPatternForIdentifier(cfg.identifier), u)
    THEN throwError("InvalidCharacter",
                    "Invalid character in this type of HexaURL", <<>>)
  ELSE IF ~IsNull(cfg.delimiter) THEN validateDelimiters(u, Val(cfg.delimiter)) ELSE Ok

\* mutant: the composition step runs before the length steps
validate_compositionFirst(u, cfg, byteSize) ==
  LET len == length(u)
      effectiveMax ==
        IF ~IsNull(cfg.maxLength)
          THEN MathMin(Num(Val(cfg.maxLength)), calcStrLen(byteSize))
          ELSE calcStrLen(byteSize)
  IN
  IF ~IsNull(cfg.minLength) /\ Less(effectiveMax, Num(Val(cfg.minLength)))
    THEN throwError("InvalidConfig",
                    "Maximum length (${}) cannot be less than minimum length (${})",
                    <<effectiveMax, Num(Val(cfg.minLength))>>)
  ELSE IF cfg.identifier \notin IdentifierComposition THEN TypeError
  ELSE IF ~test(getPatternForIdentifier(cfg.identifier), u)
    THEN throwError("InvalidCharacter",
                    "Invalid character in this type of HexaURL", <<>>)
  ELSE IF ~IsNull(cfg.minLength) /\ len < Val(cfg.minLength)
    THEN throwError("StringTooShort",
                    "String is too short: minimum length is ${} characters",
                    <<Num(Val(cfg.minLength))>>)
  ELSE IF Less(effectiveMax, Num(len))
    THEN throwError("StringTooLong",
                    "String is too long: maximum length is ${} characters",
                    <<effectiveMax>>)
  ELSE validateDelimiters(u, Val(Coalesce(cfg.delimiter, Value(createDelimiterRules(<<>>)))))

\* validate(input, config, byteSize) on the JS string u
validate(u, cfg, byteSize) ==
  LET len == length(u)
      effectiveMax ==
        IF ~IsNull(cfg.maxLength)
          THEN MathMin(Num(Val(cfg.maxLength)), calcStrLen(byteSize))
          ELSE calcStrLen(byteSize)
  IN
  IF ~IsNull(cfg.minLength) /\ Less(effectiveMax, Num(Val(cfg.minLength)))
    THEN throwError("InvalidConfig",
                    "Maximum length (${}) cannot be less than minimum length (${})",
                    <<effectiveMax, Num(Val(cfg.minLength))>>)
  ELSE IF ~IsNull(cfg.minLength) /\ len < Val(cfg.minLength)
    THEN throwError("StringTooShort",
                    "String is too short: minimum length is ${} characters",
                    <<Num(Val(cfg.minLength))>>)
  ELSE IF Less(effectiveMax, Num(len))
    THEN throwError("StringTooLong",
                    "String is too long: maximum length is ${} characters",
                    <<effectiveMax>>)
  ELSE IF cfg.identifier \notin IdentifierComposition THEN TypeError
  ELSE IF ~test(getPatternForIdentifier(cfg.identifier), u)
    THEN throwError("InvalidCharacter",
                    "Invalid character in this type of HexaURL", <<>>)
  ELSE validateDelimiters(u, Val(Coalesce(cfg.delimiter, Value(createDelimiterRules(<<>>)))))

Ascii == 0..127

\* mutant: the ASCII pattern written with + like the composition patterns
isEncodingSafe_plus(u, byteSize) ==
  ~Less(calcStrLen(byteSize), Num(length(u))) /\ TestPlus(Ascii, u)

\* mutant: the length bound computed with the ratio inverted
isEncodingSafe_ownRatio(u, byteSize) ==
  ~Less(Div(byteSize * 3, 4), Num(length(u))) /\ TestStar(Ascii, u)

\* mutant: the ASCII test left out
isEncodingSafe_lengthOnly(u, byteSize) ==
  ~Less(calcStrLen(byteSize), Num(length(u)))

isEncodingSafe(u, byteSize) ==
  ~Less(calcStrLen(byteSize), Num(length(u))) /\ TestStar(Ascii, u)

\* the lastIndex fields after a validate(input, config, byteSize) that ended
\* with result: the call ran the composition pattern unless a length step or
\* the pattern lookup threw
validate_lastIndex(result, u, cfg) ==
  IF result.code \in {"InvalidConfig", "StringTooShort", "StringTooLong", "TypeError"}
    THEN lastIndex
    ELSE test_lastIndex(getPatternForIdentifier(cfg.identifier), u)

\* ------------------------------------------------------------ zod adapter
\* mutant: only HexaUrlErrors are caught, any other exception escapes
hexaurl_rethrow(value, cfg, byteSize) ==
  LET err == validate(value, cfg, byteSize) IN
  IF err = Ok THEN [issues |-> <<>>, thrown |-> Ok]
  ELSE IF err.code \in DOMAIN HexaUrlErrorCode
    THEN [issues |-> <<[code |-> "custom",
                        message |-> <<err.message, " (code: ",
                                      ToString(HexaUrlErrorCode[err.code]), ")">>,
                        args |-> err.args]>>,
          thrown |-> Ok]
  ELSE [issues |-> <<>>, thrown |-> err]

\* the superRefine callback of ZodString.prototype.hexaurl(config, byteSize) on
\* value: the issues it adds to ctx, and the exception it ends with (Ok: it
\* returns).  A message is the sequence of the strings concatenated; args are
\* the numbers interpolated into the error's own message.
hexaurl(value, cfg, byteSize) ==
  LET err == validate(value, cfg, byteSize) IN
  IF err = Ok THEN [issues |-> <<>>, thrown |-> Ok]
  ELSE IF err.code \in DOMAIN HexaUrlErrorCode
    THEN [issues |-> <<[code |-> "custom",
                        message |-> <<err.message, " (code: ",
                                      ToString(HexaUrlErrorCode[err.code]), ")">>,
                        args |-> err.args]>>,
          thrown |-> Ok]
  ELSE [issues |-> <<[code |-> "custom",
                      message |-> <<"Unknown error during HexaURL validation">>,
                      args |-> <<>>]>>,
        thrown |-> Ok]

\* ------------------------------------------------------------ the callers
Strings == UNION {[1..k -> Alphabet] : k \in 0..MaxLen}
ByteSizes == 0..MaxByteSize
Lengths == {Null} \cup {Value(n) : n \in 0..MaxCfgLen}
Delimiters == {Null} \cup {Value(r) : r \in DelimiterRules}
\* the delimiter option of a createConfig caller: left out, null, or the
\* result of one of the two rule factories
OptionDelimiters ==
  {Undefined, Null, Value(createDelimiterRules(<<>>)), Value(createAllowedDelimiterRules)}
\* the options object of a createConfig caller.  Beside the four keys of
\* ConfigOptions it may carry the key "composition", which the test suite
\* passes and Config.create never reads.
\* A caller names the composition under one key or the other.
ConfigOptions ==
  {o \in [minLength : {Undefined} \cup Lengths,
          maxLength : {Undefined} \cup Lengths,
          identifier : {Undefined} \cup {Value(i) : i \in IdentifierComposition},
          delimiter : OptionDelimiters,
          composition : {Undefined} \cup {Value(i) : i \in IdentifierComposition}] :
     o.identifier = Undefined \/ o.composition = Undefined}

\* createConfig() / Config.create(): the empty options object
NoOptions ==
  [minLength |-> Undefined, maxLength |-> Undefined, identifier |-> Undefined,
   delimiter |-> Undefined, composition |-> Undefined]

\* a value that is no member of IdentifierComposition
OutOfEnum == "OutOfEnum"

\* the options of a caller that keeps the default lengths
DefaultOptions ==
  {o \in ConfigOptions :
     o.minLength = Undefined /\ o.maxLength = Undefined /\ o.composition = Undefined}

\* the byte budget validate and isEncodingSafe default to
DEFAULT_BYTE_SIZE == 16
\* identifiers long enough for the default minLength
Identifiers ==
  UNION {[1..k -> {LetterA, Hyphen, Underscore}] : k \in DEFAULT_MIN_LENGTH..MaxIdLen}

\* the last call: its operation, the arguments of a constructor call, the
\* input and byte budget of a validation call, and its outcome
NoCall == [op |-> "none", args |-> <<>>, input |-> <<>>, byteSize |-> 0, result |-> Ok]

Init ==
  /\ config = NoConfig
  /\ call = NoCall
  /\ lastIndex = [p \in DOMAIN PATTERNS |-> 0]

\* the result of a constructor call: the thrown Error, or a normal return
Constructed(c) ==
  IF c = NoConfig THEN [code |-> "Error", message |-> ConfigError, args |-> <<>>] ELSE Ok

\* new Config(minLength, maxLength, identifier, delimiter)
NewConfig ==
  /\ call.op = "none"
  /\ \E a \in Lengths, b \in Lengths, i \in IdentifierComposition, d \in Delimiters :
       /\ config' = Config(a, b, i, d)
       /\ call' = [op |-> "Config", args |-> <<a, b, i, d>>, input |-> <<>>,
                   byteSize |-> 0, result |-> Constructed(config')]
  /\ UNCHANGED lastIndex

\* createConfig(options), which is Config.create(options), for a caller that
\* takes its options from the set options
CreateConfigFrom(options) ==
  /\ call.op = "none"
  /\ \E o \in options :
       /\ config' = createConfig(o)
       /\ call' = [op |-> "createConfig", args |-> <<o>>, input |-> <<>>,
                   byteSize |-> 0, result |-> Constructed(config')]
  /\ UNCHANGED lastIndex

CreateConfig == CreateConfigFrom(ConfigOptions)

\* a caller that keeps the default lengths
CreateDefaultConfig == CreateConfigFrom(DefaultOptions)

\* Config.minimal()
Minimal ==
  /\ call.op = "none"
  /\ config' = Config_minimal
  /\ call' = [op |-> "minimal", args |-> <<>>, input |-> <<>>, byteSize |-> 0, result |-> Ok]
  /\ UNCHANGED lastIndex

\* the caller takes one string and one byte budget, and keeps to them in its
\* later calls
Arguments(first) ==
  IF call.op \in {"validate", "isEncodingSafe", "hexaurl"}
    THEN {<<call.input, call.byteSize>>}
    ELSE first

\* validate(input, config, byteSize), for a caller that takes its first
\* arguments from the set first
ValidateOn(first) ==
  /\ config # NoConfig
  /\ \E arg \in Arguments(first) :
       /\ call' = [op |-> "validate", args |-> <<>>, input |-> arg[1], byteSize |-> arg[2],
                   result |-> validate(utf16(arg[1]), config, arg[2])]
       /\ lastIndex' = validate_lastIndex(call'.result, utf16(arg[1]), config)
  /\ UNCHANGED config

Validate == ValidateOn(Strings \X ByteSizes)

\* validate(input, config): an identifier under the default byte budget
ValidateIdentifier == ValidateOn(Identifiers \X {DEFAULT_BYTE_SIZE})

\* isEncodingSafe(input, byteSize)
IsEncodingSafe ==
  /\ config # NoConfig
  /\ \E arg \in Arguments(Strings \X ByteSizes) :
       call' = [op |-> "isEncodingSafe", args |-> <<>>, input |-> arg[1], byteSize |-> arg[2],
                result |-> isEncodingSafe(utf16(arg[1]), arg[2])]
  /\ UNCHANGED <<config, lastIndex>>

\* new Config(minLength, maxLength, x as IdentifierComposition, null) by a
\* caller whose x is no member of the enum
CastConfig ==
  /\ call.op = "none"
  /\ \E a \in Lengths, b \in Lengths :
       /\ config' = Config(a, b, OutOfEnum, Null)
       /\ call' = [op |-> "Config", args |-> <<a, b, OutOfEnum, Null>>, input |-> <<>>,
                   byteSize |-> 0, result |-> Constructed(config')]
  /\ UNCHANGED lastIndex

\* the inputs and byte budgets of a schema's parse calls
ZodArguments == (Strings \X ByteSizes) \cup (Identifiers \X {DEFAULT_BYTE_SIZE})

\* schema.safeParse(input) for schema = z.string().hexaurl(config, byteSize):
\* the refinement runs on the string and records its issues; superRefine hands
\* the value on as it is
Hexaurl ==
  /\ config # NoConfig
  /\ \E arg \in Arguments(ZodArguments) :
       /\ call' = [op |-> "hexaurl", args |-> <<>>, input |-> arg[1], byteSize |-> arg[2],
                   result |-> hexaurl(utf16(arg[1]), config, arg[2]),
                   data |-> utf16(arg[1])]
       /\ lastIndex' = validate_lastIndex(validate(utf16(arg[1]), config, arg[2]),
                                          utf16(arg[1]), config)
  /\ UNCHANGED config

\* schema.safeParse(input) for schema = z.string().hexaurl(): the adapter
\* builds Config.create() and takes 16 bytes
HexaurlDefault ==
  /\ call.op = "none"
  /\ config' = Config_create(NoOptions)
  /\ \E s \in Identifiers :
       /\ call' = [op |-> "hexaurl", args |-> <<>>, input |-> s,
                   byteSize |-> DEFAULT_BYTE_SIZE,
                   result |-> hexaurl(utf16(s), config', DEFAULT_BYTE_SIZE),
                   data |-> utf16(s)]
       /\ lastIndex' = validate_lastIndex(validate(utf16(s), config', DEFAULT_BYTE_SIZE),
                                          utf16(s), config')

Next ==
  \/ NewConfig
  \/ CreateConfig
  \/ Minimal
  \/ Validate
  \/ IsEncodingSafe

Spec == Init /\ [][Next]_vars

\* a caller that keeps the default lengths and the default byte budget
NextDefaults ==
  \/ CreateDefaultConfig
  \/ ValidateIdentifier

SpecDefaults == Init /\ [][NextDefaults]_vars

\* a caller that validates through the Zod adapter
NextZod ==
  \/ CreateConfig
  \/ Minimal
  \/ CastConfig
  \/ Hexaurl
  \/ HexaurlDefault

SpecZod == Init /\ [][NextZod]_vars

\* ------------------------------------------------- vocabulary of the claims
\* These restate the specification's words on the caller's view of a call: the
\* string as a sequence of characters, lengths and bounds as integers.
LengthAccounting(n) == (n * 4) \div 3
Smaller(a, b) == IF a < b THEN a ELSE b
EffectiveMax(cfg, n) ==
  IF IsNull(cfg.maxLength) THEN LengthAccounting(n)
  ELSE Smaller(Val(cfg.maxLength), LengthAccounting(n))
\* minLength is absent, or m reaches it
ReachesMin(cfg, m) == IsNull(cfg.minLength) \/ m >= Val(cfg.minLength)
\* the byte budget leaves room for minLength
Consistent(cfg, n) == ReachesMin(cfg, EffectiveMax(cfg, n))
\* input.length: the number of UTF-16 code units of the string
CodeUnits(s) == Len(utf16(s))

AllowedChars(identifier) ==
  (Digits \cup Upper \cup Lower)
    \cup (IF identifier \in {AlphanumericHyphen, AlphanumericHyphenUnderscore}
            THEN {Hyphen} ELSE {})
    \cup (IF identifier \in {AlphanumericUnderscore, AlphanumericHyphenUnderscore}
            THEN {Underscore} ELSE {})
WellComposed(s, cfg) ==
  s # <<>> /\ \A i \in 1..Len(s) : s[i] \in AllowedChars(cfg.identifier)

Edge(s, c) == s # <<>> /\ (s[1] = c \/ s[Len(s)] = c)
Pair(s, c, d) == \E i \in 1..(Len(s) - 1) : s[i] = c /\ s[i + 1] = d
\* the forbidden pattern of each delimiter flag
HasPattern(f, s) ==
  CASE f = "allowLeadingTrailingHyphens" -> Edge(s, Hyphen)
    [] f = "allowLeadingTrailingUnderscores" -> Edge(s, Underscore)
    [] f = "allowConsecutiveHyphens" -> Pair(s, Hyphen, Hyphen)
    [] f = "allowConsecutiveUnderscores" -> Pair(s, Underscore, Underscore)
    [] f = "allowAdjacentHyphenUnderscore" ->
         Pair(s, Hyphen, Underscore) \/ Pair(s, Underscore, Hyphen)
ErrorOf(f) ==
  CASE f = "allowLeadingTrailingHyphens" -> "LeadingTrailingHyphen"
    [] f = "allowLeadingTrailingUnderscores" -> "LeadingTrailingUnderscore"
    [] f = "allowConsecutiveHyphens" -> "ConsecutiveHyphens"
    [] f = "allowConsecutiveUnderscores" -> "ConsecutiveUnderscores"
    [] f = "allowAdjacentHyphenUnderscore" -> "AdjacentHyphenUnderscore"
\* the rules in force: an absent delimiter means every flag false
RulesOf(cfg) == IF IsNull(cfg.delimiter) THEN [f \in Flags |-> FALSE] ELSE Val(cfg.delimiter)
Forbidden(f, s, cfg) == ~RulesOf(cfg)[f] /\ HasPattern(f, s)

Validated == call.op = "validate"
Code == call.result.code

\* ------------------------------------------------------------------ C1
Acceptable(s, cfg, n) ==
  /\ ReachesMin(cfg, Len(s))
  /\ Len(s) <= EffectiveMax(cfg, n)
  /\ WellComposed(s, cfg)
  /\ \A f \in Flags : ~Forbidden(f, s, cfg)

\* C1: validate succeeds if and only if the input reaches minLength (when set),
\* is no longer than effectiveMax = min(maxLength, floor(byteSize*4/3)), is
\* non-empty with every character in the composition's set, and holds no
\* delimiter pattern whose flag is false; in particular a string of letters of
\* length exactly effectiveMax (that reaches minLength) is accepted.
C1_SucceedsIffAllChecksPass ==
  Validated =>
    /\ (call.result = Ok) <=> Acceptable(call.input, config, call.byteSize)
    /\ ( /\ call.input # <<>>
         /\ \A i \in 1..Len(call.input) : call.input[i] \in Lower
         /\ Len(call.input) = EffectiveMax(config, call.byteSize)
         /\ ReachesMin(config, Len(call.input)) ) => call.result = Ok

\* letters of length exactly effectiveMax, the floor of a fractional 4n/3, accepted
C1_Witness ==
  /\ Validated
  /\ call.result = Ok
  /\ IsNull(config.maxLength)
  /\ (call.byteSize * 4) % 3 # 0
  /\ Len(call.input) = EffectiveMax(config, call.byteSize)
  /\ \A i \in 1..Len(call.input) : call.input[i] \in Lower

\* ------------------------------------------------------------------ C2
\* C2 as stated: every input shorter than minLength fails with StringTooShort,
\* for every byte budget and every other configuration value.
C2_ShortAlwaysTooShort ==
  (Validated /\ ~IsNull(config.minLength) /\ CodeUnits(call.input) < Val(config.minLength))
    => Code = "StringTooShort"

\* C2 amended: an input whose length (input.length, UTF-16 code units) is below
\* minLength fails with StringTooShort when effectiveMax >= minLength, and with
\* InvalidConfig when effectiveMax < minLength.
C2_ShortTooShortUnlessInvalidConfig ==
  (Validated /\ ~IsNull(config.minLength) /\ CodeUnits(call.input) < Val(config.minLength))
    => Code = (IF Consistent(config, call.byteSize) THEN "StringTooShort" ELSE "InvalidConfig")

C2_Witness ==
  /\ Validated
  /\ Code = "StringTooShort"
  /\ call.input # <<>>
  /\ CodeUnits(call.input) < Val(config.minLength)
  /\ ~IsNull(config.maxLength)

\* ------------------------------------------------------------------ C3
\* C3 as stated: every input longer than effectiveMax fails with StringTooLong,
\* for every configuration and byte budget.
C3_LongAlwaysTooLong ==
  (Validated /\ Len(call.input) > EffectiveMax(config, call.byteSize))
    => Code = "StringTooLong"

\* C3 amended: an input longer than effectiveMax (in characters, hence also in
\* code units) fails with StringTooLong when minLength is absent or
\* effectiveMax >= minLength, and with InvalidConfig otherwise.
C3_LongTooLongUnlessInvalidConfig ==
  (Validated /\ CodeUnits(call.input) > EffectiveMax(config, call.byteSize))
    => Code = (IF Consistent(config, call.byteSize) THEN "StringTooLong" ELSE "InvalidConfig")

\* too long for the byte budget alone, and for maxLength alone
C3_Witness ==
  /\ Validated
  /\ Code = "StringTooLong"
  /\ ~IsNull(config.minLength)
  /\ ~IsNull(config.maxLength)
  /\ Len(call.input) > LengthAccounting(call.byteSize)
  /\ Len(call.input) <= Val(config.maxLength)

\* ------------------------------------------------------------------ C4
HasForeignChar(s, cfg) == \E i \in 1..Len(s) : s[i] \notin AllowedChars(cfg.identifier)

\* C4 as stated: an input with a character outside the composition's set fails
\* with InvalidCharacter whether its length is too short, in range or too long.
C4_ForeignCharAlwaysInvalidCharacter ==
  (Validated /\ HasForeignChar(call.input, config)) => Code = "InvalidCharacter"

\* C4 amended: an input with a character outside the composition's set fails
\* with InvalidCharacter when its length (input.length) passes the length
\* steps: no InvalidConfig, minLength <= length <= effectiveMax.
C4_ForeignCharInvalidCharacterInRange ==
  ( /\ Validated
    /\ HasForeignChar(call.input, config)
    /\ Consistent(config, call.byteSize)
    /\ ReachesMin(config, CodeUnits(call.input))
    /\ CodeUnits(call.input) <= EffectiveMax(config, call.byteSize) )
    => Code = "InvalidCharacter"

\* an underscore under AlphanumericHyphen, within the length range
C4_Witness ==
  /\ Validated
  /\ Code = "InvalidCharacter"
  /\ config.identifier = AlphanumericHyphen
  /\ \E i \in 1..Len(call.input) : call.input[i] = Underscore
  /\ \A i \in 1..Len(call.input) : call.input[i] # Fox

\* ------------------------------------------------------------------ C5
FlagOrder == <<"allowLeadingTrailingHyphens", "allowLeadingTrailingUnderscores",
               "allowConsecutiveHyphens", "allowConsecutiveUnderscores",
               "allowAdjacentHyphenUnderscore">>
Position(f) == CHOOSE i \in 1..Len(FlagOrder) : FlagOrder[i] = f
\* the configuration with only flag f changed to true
WithFlag(cfg, f) == [cfg EXCEPT !.delimiter = Value([RulesOf(cfg) EXCEPT ![f] = TRUE])]
\* the call is a validate of an input of valid length and composition
ValidLengthAndComposition ==
  /\ Validated
  /\ ReachesMin(config, Len(call.input))
  /\ Len(call.input) <= EffectiveMax(config, call.byteSize)
  /\ WellComposed(call.input, config)
Rerun(f) == validate(utf16(call.input), WithFlag(config, f), call.byteSize)

\* C5 as stated: for each flag that is false, an input of valid length and
\* composition that contains the flag's pattern fails with the flag's error
\* kind, and validate with only that flag changed to true succeeds.
C5_PatternFailsThenFlagFixes ==
  ValidLengthAndComposition =>
    \A f \in Flags :
      Forbidden(f, call.input, config) => (Code = ErrorOf(f) /\ Rerun(f) = Ok)

\* C5 amended: for each flag that is false, an input of valid length and
\* composition that contains the flag's pattern fails with the flag's error
\* kind exactly when it contains no pattern of a false flag checked earlier
\* (else the earlier flag's kind is reported); and validate with only that
\* flag changed to true succeeds exactly when the input contains no pattern of
\* any other false flag.
C5_PatternFailsInOrderFlagFixesAlone ==
  ValidLengthAndComposition =>
    \A f \in Flags :
      Forbidden(f, call.input, config)
        => /\ Code \in {ErrorOf(g) : g \in Flags}
           /\ (Code = ErrorOf(f)) <=>
                (\A g \in Flags : Position(g) < Position(f) => ~Forbidden(g, call.input, config))
           /\ (Rerun(f) = Ok) <=>
                (\A g \in Flags \ {f} : ~Forbidden(g, call.input, config))

\* "-_" or "_-" inside an input reported as AdjacentHyphenUnderscore, and
\* accepted once that flag alone is turned on
C5_Witness ==
  /\ ValidLengthAndComposition
  /\ Forbidden("allowAdjacentHyphenUnderscore", call.input, config)
  /\ Code = "AdjacentHyphenUnderscore"
  /\ Rerun("allowAdjacentHyphenUnderscore") = Ok

\* ------------------------------------------------------------------ C6
CheckOrder == <<"InvalidConfig", "StringTooShort", "StringTooLong", "InvalidCharacter",
                "LeadingTrailingHyphen", "LeadingTrailingUnderscore", "ConsecutiveHyphens",
                "ConsecutiveUnderscores", "AdjacentHyphenUnderscore">>
\* the check of kind k, taken alone, fails on this call (lengths as input.length)
Fails(k, s, cfg, n) ==
  CASE k = "InvalidConfig" -> ~Consistent(cfg, n)
    [] k = "StringTooShort" -> ~ReachesMin(cfg, CodeUnits(s))
    [] k = "StringTooLong" -> CodeUnits(s) > EffectiveMax(cfg, n)
    [] k = "InvalidCharacter" -> ~WellComposed(s, cfg)
    [] OTHER -> \E f \in Flags : ErrorOf(f) = k /\ Forbidden(f, s, cfg)
Failing == {i \in 1..Len(CheckOrder) : Fails(CheckOrder[i], call.input, config, call.byteSize)}

PureAscii(s) == \A i \in 1..Len(s) : s[i] <= 127

\* C8: isEncodingSafe(s, n) returns a boolean, never an error, and returns true
\* if and only if the length of s is at most floor(n*4/3) and every character
\* of s is in 0x00-0x7F.
C8_SafeIffShortAndAscii ==
  call.op = "isEncodingSafe" =>
    /\ call.result \in BOOLEAN
    /\ call.result <=>
         (Len(call.input) <= LengthAccounting(call.byteSize) /\ PureAscii(call.input))

\* accepted at length exactly floor(n*4/3) for a fractional n*4/3
C8_Witness ==
  /\ call.op = "isEncodingSafe"
  /\ call.result = TRUE
  /\ call.input # <<>>
  /\ (call.byteSize * 4) % 3 # 0
  /\ Len(call.input) = LengthAccounting(call.byteSize)

\* ------------------------------------------------------------------ C9
Accepted == call.op = "isEncodingSafe" /\ call.result = TRUE
\* what validate reports for the same string and budget under the configuration
Full == validate(utf16(call.input), config, call.byteSize).code

\* C9 as stated: isEncodingSafe never accepts a string that validate, with the
\* same byte budget, rejects with StringTooShort or StringTooLong or that holds
\* a non-ASCII character.
C9_SafeNeverLengthRejected ==
  Accepted => (Full \notin {"StringTooShort", "StringTooLong"} /\ PureAscii(call.input))

\* C9 amended: isEncodingSafe never accepts a string longer than the
\* byte-budget-derived maximum floor(n*4/3) nor one with a non-ASCII character;
\* so when validate reports StringTooLong for an accepted string it is
\* config.maxLength that is exceeded. It may accept strings that validate
\* rejects for the configuration's minLength or maxLength (StringTooShort,
\* StringTooLong, InvalidConfig), composition or delimiter rules.
C9_SafeNeverOverBudgetOrNonAscii ==
  Accepted =>
    /\ CodeUnits(call.input) <= LengthAccounting(call.byteSize)
    /\ PureAscii(call.input)
    /\ Full = "StringTooLong" =>
         (~IsNull(config.maxLength) /\ CodeUnits(call.input) > Val(config.maxLength))

\* accepted by the pre-check, rejected by validate on composition grounds
C9_Witness ==
  /\ Accepted
  /\ Full = "InvalidCharacter"
  /\ call.input # <<>>

\* ------------------------------------------------------------------ C10
\* C10: length accounting returns the integer floor(n*4/3), truncated, and
\* that integer is the effective maximum used in the checks and reported in
\* the StringTooLong and InvalidConfig messages.
C10_ReportedMaxIsFloor ==
  (Validated /\ Code \in {"StringTooLong", "InvalidConfig"}) =>
    /\ calcStrLen(call.byteSize) = Num(LengthAccounting(call.byteSize))
    /\ call.result.args[1] = Num(EffectiveMax(config, call.byteSize))

\* ------------------------------------------------------------------ C11
\* a constructor call (new Config, or createConfig / Config.create) and the
\* minLength and maxLength its caller supplied
Constructing == call.op \in {"Config", "createConfig"}
SuppliedMin == IF call.op = "Config" THEN call.args[1] ELSE call.args[1].minLength
SuppliedMax == IF call.op = "Config" THEN call.args[2] ELSE call.args[1].maxLength
Present(x) == ~IsNullish(x)
\* the outcome is an error of the validation engine (a HexaUrlError)
IsValidationError(r) == r.code \in DOMAIN HexaUrlErrorCode

\* C11: every Config that exists has minLength <= maxLength when both are
\* present; a constructor call (new Config, Config.create, createConfig) given
\* minLength > maxLength fails and leaves no Config; and that failure is not a
\* validation error of kind InvalidConfig (it is a plain Error).
C11_NoConfigWithMinAboveMax ==
  /\ (config # NoConfig /\ ~IsNull(config.minLength) /\ ~IsNull(config.maxLength))
       => Val(config.minLength) <= Val(config.maxLength)
  /\ (Constructing /\ Present(SuppliedMin) /\ Present(SuppliedMax)
        /\ Val(SuppliedMin) > Val(SuppliedMax))
       => /\ config = NoConfig
          /\ call.result # Ok
  /\ (Constructing /\ call.result # Ok)
       => /\ config = NoConfig
          /\ ~IsValidationError(call.result)
          /\ call.result.code # "InvalidConfig"

C11_Witness ==
  /\ call.op = "createConfig"
  /\ call.args[1].minLength = Value(2)
  /\ call.args[1].maxLength = Value(1)
  /\ config = NoConfig
  /\ call.result.code = "Error"

\* ------------------------------------------------------------------ C12
\* the same Config with its delimiter replaced by createDelimiterRules()
WithStrictRules(cfg) == [cfg EXCEPT !.delimiter = Value(createDelimiterRules(<<>>))]
\* the string has no hyphen or underscore at either end
PlainEdges(s) == ~Edge(s, Hyphen) /\ ~Edge(s, Underscore)

\* C12: a Config whose delimiter is absent is validated under the strict rules
\* (all five flags false): the outcome is the one validate gives for the same
\* Config with delimiter = createDelimiterRules(), an accepted input holds none
\* of the five patterns, and a well-composed input with "--" inside (and no
\* delimiter at its ends) fails with ConsecutiveHyphens.
C12_AbsentDelimiterIsStrict ==
  (Validated /\ IsNull(config.delimiter)) =>
    /\ call.result = validate(utf16(call.input), WithStrictRules(config), call.byteSize)
    /\ call.result = Ok => \A f \in Flags : ~HasPattern(f, call.input)
    /\ ( /\ WellComposed(call.input, config)
         /\ PlainEdges(call.input)
         /\ Pair(call.input, Hyphen, Hyphen) ) => Code = "ConsecutiveHyphens"

\* the default configuration rejects "a--a" with ConsecutiveHyphens
C12_Witness ==
  /\ Validated
  /\ config = createConfig(NoOptions)
  /\ call.input = <<LetterA, Hyphen, Hyphen, LetterA>>
  /\ call.byteSize = DEFAULT_BYTE_SIZE
  /\ Code = "ConsecutiveHyphens"

\* ------------------------------------------------------------------ C13
\* C13: createConfig called with minLength: null gives a Config without a
\* minimum (minLength absent), under which a one-letter input is not too short.
C13_NullMinLengthIsNoMinimum ==
  (call.op = "createConfig" /\ call.args[1].minLength = Null) =>
    /\ config # NoConfig
    /\ IsNull(config.minLength)
    /\ validate(utf16(<<LetterA>>), config, MaxByteSize).code # "StringTooShort"

\* ------------------------------------------------------------------ C14
\* C14: a Config made by createConfig with the option composition set to C
\* validates under C: its composition is C, and no input with a character
\* outside C's set (a hyphen or underscore under Alphanumeric, an underscore
\* under AlphanumericHyphen) is accepted.
C14_CompositionOptionSelectsPattern ==
  (call.op = "createConfig" /\ Present(call.args[1].composition) /\ config # NoConfig) =>
    LET C == Val(call.args[1].composition) IN
    /\ config.identifier = C
    /\ \A s \in Strings, n \in ByteSizes :
         (\E i \in 1..Len(s) : s[i] \notin AllowedChars(C))
           => validate(utf16(s), config, n) # Ok

\* ------------------------------------------------------------------ C15
\* C15: validate never accepts the empty string, whatever the Config and the
\* byte budget; when minLength is absent (as in Config.minimal()) or 0, the
\* empty string passes the length steps and is rejected by the composition step
\* with InvalidCharacter.
C15_EmptyStringNeverAccepted ==
  (Validated /\ call.input = <<>>) =>
    /\ call.result # Ok
    /\ (IsNull(config.minLength) \/ config.minLength = Value(0))
         => Code = "InvalidCharacter"

C15_Witness ==
  /\ Validated
  /\ config = Config_minimal
  /\ call.input = <<>>
  /\ Code = "InvalidCharacter"

\* ------------------------------------------------------------------ C16
Refined == call.op = "hexaurl"
Issues == call.result.issues
\* the message holds the string part
Embeds(message, part) == \E i \in 1..Len(message) : message[i] = part
GenericIssue ==
  [code |-> "custom", message |-> <<"Unknown error during HexaURL validation">>,
   args |-> <<>>]

\* C16: the adapter step reports an issue if and only if validate fails for the
\* value.  On success it adds no issue and hands the string on unchanged; on a
\* HexaUrlError it adds exactly one issue whose message holds the error's
\* message and the error code; on any other exception it adds the one generic
\* issue; and no exception leaves the step.
C16_IssueIffValidateFails ==
  Refined =>
    LET err == validate(utf16(call.input), config, call.byteSize) IN
    /\ call.result.thrown = Ok
    /\ (Issues = <<>>) <=> (err = Ok)
    /\ config.identifier \in IdentifierComposition
         => ((Issues = <<>>) <=> Acceptable(call.input, config, call.byteSize))
    /\ call.data = utf16(call.input)
    /\ IsValidationError(err)
         => /\ Len(Issues) = 1
            /\ Embeds(Issues[1].message, err.message)
            /\ Issues[1].args = err.args
            /\ Embeds(Issues[1].message, ToString(HexaUrlErrorCode[err.code]))
    /\ (err # Ok /\ ~IsValidationError(err)) => Issues = <<GenericIssue>>

\* z.string().hexaurl() on "-aa" reports the leading hyphen, with code 7
C16_Witness ==
  /\ Refined
  /\ config = Config_create(NoOptions)
  /\ call.input = <<Hyphen, LetterA, LetterA>>
  /\ Len(Issues) = 1
  /\ Issues[1].message =
       <<"Hyphens cannot start or end this type of HexaURL", " (code: ", "7", ")">>

\* ------------------------------------------------------------------ C17
\* a step that is a validate or isEncodingSafe call
Validates == call'.op = "validate"
Checks == call'.op \in {"validate", "isEncodingSafe"}
\* how validate would end if it were called now on the last call's arguments
Again == validate(utf16(call.input), config, call.byteSize)

\* C17: validate has no hidden state.  A validate or isEncodingSafe call leaves
\* the Config (its delimiter rules included) and the shared patterns as they
\* were; a validate call that follows a validate call on the same arguments
\* ends as that one did (same error kind and message, or success); and after
\* a validate call, calling validate once more would again end the same.
C17_ValidateHasNoHiddenState ==
  /\ [][ Checks =>
          /\ config' = config
          /\ lastIndex' = lastIndex
          /\ (Validates /\ Validated) => call'.result = call.result ]_vars
  /\ [](Validated => call.result = Again)

\* a validate call that ran the shared pattern and the delimiter rules of a
\* Config and succeeded
C17_Witness ==
  /\ Validated
  /\ Code = "Ok"
  /\ ~IsNull(config.delimiter)
  /\ call.input = <<LetterA, Hyphen>>
  /\ \A p \in DOMAIN PATTERNS : lastIndex[p] = 0

\* ------------------------------------------------------------------ C18
\* a non-empty string of characters outside the Basic Multilingual Plane
Astral(s) == s # <<>> /\ \A i \in 1..Len(s) : s[i] > 65535

\* C18 as stated: lengths count Unicode scalars, so an input of k astral
\* characters with minLength <= k <= effectiveMax passes the length steps and is
\* rejected with InvalidCharacter.
C18_AstralCountedAsOneCharacter ==
  ( /\ Validated
    /\ Astral(call.input)
    /\ Consistent(config, call.byteSize)
    /\ ReachesMin(config, Len(call.input))
    /\ Len(call.input) <= EffectiveMax(config, call.byteSize) )
    => Code = "InvalidCharacter"

\* C18, amended: lengths count UTF-16 code units (input.length), so an input
\* of k astral characters has length 2k.  When the byte budget leaves room for
\* minLength, it is too short if 2k < minLength, else too long if
\* 2k > effectiveMax, and only with minLength <= 2k <= effectiveMax does it reach
\* the composition step, which rejects it with InvalidCharacter; isEncodingSafe
\* returns false for it whatever its length.
C18_AstralCountedAsTwoCodeUnits ==
  /\ ( Validated /\ Astral(call.input) /\ Consistent(config, call.byteSize) ) =>
       LET k == Len(call.input) IN
       /\ CodeUnits(call.input) = 2 * k
       /\ ~ReachesMin(config, 2 * k) => Code = "StringTooShort"
       /\ (ReachesMin(config, 2 * k) /\ 2 * k > EffectiveMax(config, call.byteSize))
            => Code = "StringTooLong"
       /\ (ReachesMin(config, 2 * k) /\ 2 * k <= EffectiveMax(config, call.byteSize))
            => Code = "InvalidCharacter"
  /\ ( call.op = "isEncodingSafe" /\ Astral(call.input) ) => call.result = FALSE

\* one astral character against an effective maximum of 1: too long
C18_Witness ==
  /\ Validated
  /\ call.input = <<Fox>>
  /\ EffectiveMax(config, call.byteSize) = 1
  /\ ReachesMin(config, 1)
  /\ Code = "StringTooLong"

\* ------------------------------------------------------------------ C19
\* C19: whenever validate(s, config, n) succeeds, isEncodingSafe(s, n) returns
\* true: an accepted input is pure ASCII and fits the byte budget.  Seen from
\* either call: after an accepting validate the pre-check of the same
\* arguments is true, and after a pre-check that returned false validate of
\* the same arguments does not succeed.
C19_AcceptedIsEncodingSafe ==
  /\ (Validated /\ call.result = Ok) =>
       /\ isEncodingSafe(utf16(call.input), call.byteSize)
       /\ PureAscii(call.input)
       /\ Len(call.input) <= LengthAccounting(call.byteSize)
  /\ (call.op = "isEncodingSafe" /\ call.result = FALSE) =>
       validate(utf16(call.input), config, call.byteSize) # Ok

\* an accepted input that fills the byte budget exactly
C19_Witness ==
  /\ Validated
  /\ call.result = Ok
  /\ call.byteSize = 1
  /\ Len(call.input) = LengthAccounting(call.byteSize)

\* ------------------------------------------------------------------ C20
\* rules r2 allow whatever rules r1 allow
AtLeastAsPermissive(r2, r1) == \A f \in Flags : r1[f] => r2[f]
\* the compositions whose character set is a superset of the identifier's
Wider(identifier) == {i \in IdentifierComposition : AllowedChars(identifier) \subseteq AllowedChars(i)}

\* C20: validate is monotone in permissiveness.  An input accepted under
\* delimiter rules R is accepted under every R' that keeps each true flag of R
\* true (createAllowedDelimiterRules() above all), the other parameters
\* unchanged; and an input accepted under a composition is accepted under every
\* wider one, so one accepted under Alphanumeric is accepted under all four.
C20_MonotoneInPermissiveness ==
  (Validated /\ call.result = Ok) =>
    /\ \A r \in DelimiterRules :
         AtLeastAsPermissive(r, RulesOf(config))
           => validate(utf16(call.input), [config EXCEPT !.delimiter = Value(r)],
                       call.byteSize) = Ok
    /\ validate(utf16(call.input),
                [config EXCEPT !.delimiter = Value(createAllowedDelimiterRules)],
                call.byteSize) = Ok
    /\ \A i \in Wider(config.identifier) :
         validate(utf16(call.input), [config EXCEPT !.identifier = i], call.byteSize) = Ok
    /\ config.identifier = Alphanumeric => Wider(config.identifier) = IdentifierComposition

\* "--" accepted under rules that allow hyphens at the ends and in a row, but
\* not every pattern
C20_Witness ==
  /\ Validated
  /\ call.result = Ok
  /\ call.input = <<Hyphen, Hyphen>>
  /\ ~IsNull(config.delimiter)
  /\ ~Val(config.delimiter).allowAdjacentHyphenUnderscore
  /\ ~Val(config.delimiter).allowLeadingTrailingUnderscores

====
